---- MODULE Spec2Model ----
(***************************************************************************)
(* Model of alg/ganite/ganite/datasets/dataset_twins.py: the Twins data    *)
(* pipeline preprocess() (load, impute, build features, synthesize         *)
(* treatment and outcome, split) and the process-global numpy generator    *)
(* that the module seeds when it is imported.                              *)
(*                                                                         *)
(* Conventions.                                                            *)
(*  - A column name is a sequence of text fragments, so that stray quote   *)
(*    characters in the CSV header are fragments the loader removes.       *)
(*  - A column is a function from the record indices 0..no-1 to cells.     *)
(*  - Cells of the six columns that receive a mean are rationals           *)
(*    [n, d] in lowest terms, d = 0 standing for NaN; all other cells are  *)
(*    integers.                                                            *)
(*  - The generator state is (seed, pos): pos counts the variates drawn    *)
(*    since seeding.  What the generator returns at a state is a fixed but *)
(*    unknown function of that state: mt records the values revealed so    *)
(*    far, and a value not yet revealed is chosen freely.                  *)
(***************************************************************************)
EXTENDS Integers, Sequences, FiniteSets, TLC

VARIABLES file, pc, train_rate, df, df_new, x, potential_y, t, y,
          idx, train_idx, test_idx, out, rng, seedings, mt, run, calls

vars == <<file, pc, train_rate, df, df_new, x, potential_y, t, y,
          idx, train_idx, test_idx, out, rng, seedings, mt, run, calls>>

locals == <<df, df_new, x, potential_y, t, y, idx, train_idx, test_idx, out>>

(* ----------------------------- bounds ---------------------------------- *)
MaxNo == 3
MaxCalls == 2

(* ------------------------- program constants --------------------------- *)
NP_SEED == 0
MISSING == 99
DEATH_THRESHOLD == 9999

None == "none"

(* ------------------------------ names ---------------------------------- *)
Names(ss) == [k \in DOMAIN ss |-> <<ss[k]>>]

Range(s) == {s[k] : k \in DOMAIN s}

label_list == Names(<<"outcome(t=0)", "outcome(t=1)">>)

medrisk_list ==
    Names(<<"anemia", "cardiac", "lung", "diabetes", "herpes", "hydra",
            "hemo", "chyper", "phyper", "eclamp", "incervix", "pre4000",
            "dtotord", "preterm", "renal", "rh", "uterine", "othermr">>)

other_list == Names(<<"cigar", "drink", "wtgain", "gestat", "dmeduc", "nprevist">>)

other_list2 == Names(<<"pldel", "resstatb">>)

bin_list == Names(<<"dmar">>) \o medrisk_list

con_list == Names(<<"dmage", "mpcb">>) \o other_list

cat_list == Names(<<"adequacy">>) \o other_list2

MEDRISK_SENTINELS == {8, 9}

MedriskSet == Range(medrisk_list)

OtherSet == Range(other_list)

CatSet == Range(cat_list)

(* ---------------------------- rationals -------------------------------- *)
NaN == [n |-> 0, d |-> 0]

Abs(a) == IF a < 0 THEN -a ELSE a

RECURSIVE GCD(_, _)
GCD(a, b) == IF b = 0 THEN a ELSE GCD(b, a % b)

Rat(n, d) ==
    IF d = 0 THEN NaN
    ELSE LET g == GCD(Abs(n), d) IN [n |-> n \div g, d |-> d \div g]

Float(v) == [n |-> v, d |-> 1]

AddR(a, b) ==
    IF a.d = 0 \/ b.d = 0 THEN NaN ELSE Rat(a.n * b.d + b.n * a.d, a.d * b.d)

DivR(a, k) == IF a.d = 0 THEN NaN ELSE Rat(a.n, a.d * k)

(* ----------------------------- frames ---------------------------------- *)
Rows(no) == 0 .. (no - 1)

Frame(columns, data, no) == [columns |-> columns, data |-> data, no |-> no]

(* DataFrame.values with its shape: no rows of Len(columns) cells. *)
values(frame) ==
    [no |-> frame.no,
     dim |-> Len(frame.columns),
     rows |-> [i \in Rows(frame.no) |->
                 [j \in 1 .. Len(frame.columns) |-> frame.data[frame.columns[j]][i]]]]

(* df[names]: the named columns, in the order asked for. *)
select(frame, names) ==
    Frame(names, [c \in Range(names) |-> frame.data[c]], frame.no)

(* pd.concat([a, b], axis=1) for frames with disjoint column names. *)
concat(a, b) ==
    Frame(a.columns \o b.columns,
          [c \in Range(a.columns) \cup Range(b.columns) |->
              IF c \in Range(a.columns) THEN a.data[c] ELSE b.data[c]],
          a.no)

SetMin(S) == CHOOSE m \in S : \A v \in S : m <= v

RECURSIVE SortedSeq(_)
SortedSeq(S) ==
    IF S = {} THEN << >>
    ELSE LET m == SetMin(S) IN <<m>> \o SortedSeq(S \ {m})

Count(col, v) == Cardinality({i \in DOMAIN col : col[i] = v})

(* Series.mode(): the most frequent values, sorted ascending. *)
mode(col) ==
    LET vals == Range(col)
    IN SortedSeq({v \in vals : \A w \in vals : Count(col, w) <= Count(col, v)})

(* Series.mean() of the cells at the positions in sel. *)
RECURSIVE SumR(_, _)
SumR(col, sel) ==
    IF sel = {} THEN Float(0)
    ELSE LET i == CHOOSE j \in sel : TRUE IN AddR(col[i], SumR(col, sel \ {i}))

mean(col, sel) ==
    IF sel = {} THEN NaN ELSE DivR(SumR(col, sel), Cardinality(sel))

(* pd.get_dummies(series, prefix=feat): one indicator column per distinct
   value, in ascending order of the value, named feat_value. *)
DummyName(feat, v) == feat \o <<"_", ToString(v)>>

get_dummies(col, feat, no) ==
    LET cats == SortedSeq(Range(col))
        name(k) == DummyName(feat, cats[k])
    IN Frame([k \in DOMAIN cats |-> name(k)],
             [c \in {name(k) : k \in DOMAIN cats} |->
                 LET k == CHOOSE k \in DOMAIN cats : name(k) = c
                 IN [i \in Rows(no) |-> IF col[i] = cats[k] THEN 1 ELSE 0]],
             no)

(* ------------------------------ loader --------------------------------- *)
(* The apostrophe and the right single quotation mark (U+2019). *)
QUOTES == {"'", "rsquo"}

IsNotQuote(ch) == ch \notin QUOTES

(* col.replace(apostrophe, "").replace(right single quote, "") *)
strip_quotes(col) == SelectSeq(col, IsNotQuote)

(* pd.read_csv followed by the renaming of the columns. *)
read_csv(f) ==
    LET columns == [k \in DOMAIN f.header |-> strip_quotes(f.header[k])]
    IN Frame(columns,
             [c \in Range(columns) |->
                 f.data[CHOOSE k \in DOMAIN columns : columns[k] = c]],
             f.no)

(* ------------------------------ imputer -------------------------------- *)
(* Variant: the sentinels are set aside before the mode is taken. *)
impute_mode_without_sentinels(col) ==
    LET kept == {i \in DOMAIN col : col[i] \notin MEDRISK_SENTINELS}
        rest == {v \in {col[i] : i \in kept} :
                    \A w \in {col[i] : i \in kept} :
                        Cardinality({i \in kept : col[i] = w})
                            <= Cardinality({i \in kept : col[i] = v})}
    IN [i \in DOMAIN col |->
          IF col[i] \in MEDRISK_SENTINELS /\ rest # {} THEN SetMin(rest) ELSE col[i]]

impute_mode(col) ==
    [i \in DOMAIN col |-> IF col[i] \in MEDRISK_SENTINELS THEN mode(col)[1] ELSE col[i]]

(* Variant: the mean is taken over the whole column, sentinels included. *)
impute_mean_of_all(col) ==
    LET m == mean(col, DOMAIN col)
    IN [i \in DOMAIN col |-> IF col[i] = Float(MISSING) THEN m ELSE col[i]]

impute_mean(col) ==
    LET m == mean(col, {i \in DOMAIN col : col[i] # Float(MISSING)})
    IN [i \in DOMAIN col |-> IF col[i] = Float(MISSING) THEN m ELSE col[i]]

(* for feat in medrisk_list: df[feat] = df[feat].apply(...) *)
RECURSIVE impute_medrisk(_, _)
impute_medrisk(frame, k) ==
    IF k > Len(medrisk_list) THEN frame
    ELSE impute_medrisk(
            [frame EXCEPT !.data[medrisk_list[k]] = impute_mode(frame.data[medrisk_list[k]])],
            k + 1)

(* for feat in other_list: df.loc[df[feat] == 99, feat] = mean of the rest *)
RECURSIVE impute_other(_, _)
impute_other(frame, k) ==
    IF k > Len(other_list) THEN frame
    ELSE impute_other(
            [frame EXCEPT !.data[other_list[k]] = impute_mean(frame.data[other_list[k]])],
            k + 1)

(* -------------------------- feature builder ---------------------------- *)
RECURSIVE DummiesLoop(_, _, _)
DummiesLoop(acc, frame, k) ==
    IF k > Len(cat_list) THEN acc
    ELSE DummiesLoop(concat(acc, get_dummies(frame.data[cat_list[k]], cat_list[k], frame.no)),
                     frame, k + 1)

build_df_new(frame) == DummiesLoop(select(frame, con_list \o bin_list), frame, 1)

(* x = df.values *)
feature_matrix(frame, frame_new) == values(frame)

(* ------------------------- outcome synthesizer ------------------------- *)
(* np.array(df[label_list].values < 9999, dtype=int) *)
binarize(frame) ==
    [i \in Rows(frame.no) |->
        [j \in 1 .. 2 |-> IF frame.data[label_list[j]][i] < DEATH_THRESHOLD THEN 1 ELSE 0]]

(* A NaN cell makes its record's score, propensity and the mean of the
   propensities NaN; np.random.binomial rejects a NaN probability. *)
has_nan(frame) ==
    \E c \in Range(frame.columns) \cap OtherSet :
        \E i \in Rows(frame.no) : frame.data[c][i] = NaN

(* Variant: the two potential outcomes are exchanged. *)
observe_exchanged(tt, py) ==
    [i \in DOMAIN tt |-> tt[i] * py[i][1] + (1 - tt[i]) * py[i][2]]

(* y = t * potential_y[:, 1] + (1 - t) * potential_y[:, 0] *)
observe(tt, py) == [i \in DOMAIN tt |-> tt[i] * py[i][2] + (1 - tt[i]) * py[i][1]]

(* ------------------------------ splitter ------------------------------- *)
(* Variant: round(train_rate * no) instead of int(train_rate * no). *)
train_size_rounded(rate, no) == (2 * rate[1] * no + rate[2]) \div (2 * rate[2])

(* int(train_rate * no), train_rate = rate[1] / rate[2] *)
train_size(rate, no) == (rate[1] * no) \div rate[2]

(* Variant: idx[k + 1 :] *)
tail_slice_off_by_one(s, k) == SubSeq(s, k + 2, Len(s))

(* idx[: k] and idx[k :] *)
head_slice(s, k) == SubSeq(s, 1, k)

tail_slice(s, k) == SubSeq(s, k + 1, Len(s))

(* a[index, :] *)
take(a, index) == [k \in DOMAIN index |-> a[index[k]]]

(* Variant: the treatments are sliced in file order, t[: k]. *)
split_t_in_file_order(xx, tt, yy, py, tr, te) ==
    [train_x |-> [k \in DOMAIN tr |-> xx.rows[tr[k]]],
     train_t |-> [k \in DOMAIN tr |-> tt[k - 1]],
     train_y |-> [k \in DOMAIN tr |-> yy[tr[k]]],
     train_potential_y |-> [k \in DOMAIN tr |-> py[tr[k]]],
     test_x |-> [k \in DOMAIN te |-> xx.rows[te[k]]],
     test_potential_y |-> [k \in DOMAIN te |-> py[te[k]]]]

split(xx, tt, yy, py, tr, te) ==
    [train_x |-> take(xx.rows, tr),
     train_t |-> take(tt, tr),
     train_y |-> take(yy, tr),
     train_potential_y |-> take(py, tr),
     test_x |-> take(xx.rows, te),
     test_potential_y |-> take(py, te)]

(* ------------------------------ generator ------------------------------ *)
seeded(seed) == [seed |-> seed, pos |-> 0]

advance(g, n) == [g EXCEPT !.pos = @ + n]

Key(g, kind) == <<g.seed, g.pos, kind>>

(* v is what the generator returns for a draw of this kind at state g. *)
Returns(g, kind, v) == Key(g, kind) \in DOMAIN mt => mt[Key(g, kind)] = v

Reveal(g, kind, v) ==
    IF Key(g, kind) \in DOMAIN mt THEN mt ELSE mt @@ (Key(g, kind) :> v)

Bernoulli(no) == [Rows(no) -> {0, 1}]

permutations(no) ==
    {p \in [1 .. no -> Rows(no)] : \A a, b \in 1 .. no : p[a] = p[b] => a = b}

(* ---------------------------- input files ------------------------------ *)
TrainRates == {<<1, 2>>, <<4, 5>>}

QuoteStyles == {"", "'", "rsquo"}

MedVals == {0, 1, 8, 9}

ConVals == {1, 98, 99, 100}

CatVals == {1, 2, 3}

FeaturesFirst == con_list \o bin_list \o cat_list \o label_list

LabelsFirst == label_list \o cat_list \o bin_list \o con_list

HeaderOrders == {FeaturesFirst, LabelsFirst}

quoted(q, name) == IF q = "" THEN name ELSE <<q>> \o name \o <<q>>

(* The two outcome labels of record i: the four combinations of a death
   within the tracked interval (below 9999) or not, rotated by shift. *)
LabelCell(j, i, shift) ==
    LET c == (i + shift) % 4
    IN IF j = 1 THEN (IF c \in {0, 1} THEN 9998 ELSE 9999)
       ELSE (IF c \in {0, 2} THEN 9998 ELSE 10000)

(* A plain record: its age identifies it, every second record has one
   sentinel in each column that has sentinels. *)
BaseCell(c, i, shift) ==
    IF c = <<"dmage">> THEN 20 + i
    ELSE IF c = <<"mpcb">> THEN 1
    ELSE IF c \in OtherSet THEN Float(IF i % 2 = 1 THEN MISSING ELSE 10 + i)
    ELSE IF c = <<"dmar">> THEN i % 2
    ELSE IF c \in MedriskSet THEN (IF i % 2 = 1 THEN 9 ELSE 0)
    ELSE IF c = <<"adequacy">> THEN 1 + (i % 3)
    ELSE IF c = <<"pldel">> THEN 1 + (i % 2)
    ELSE IF c = <<"resstatb">> THEN 1
    ELSE IF c = label_list[1] THEN LabelCell(1, i, shift)
    ELSE LabelCell(2, i, shift)

(* The file whose column focus holds the cells of vec, the other columns
   holding plain records. *)
MkFile(no, order, q, shift, focus, vec) ==
    [header |-> [k \in DOMAIN order |-> quoted(q, order[k])],
     data |-> [k \in DOMAIN order |->
                 [i \in Rows(no) |->
                    IF order[k] = focus THEN vec[i] ELSE BaseCell(order[k], i, shift)]],
     no |-> no]

NoFocus == <<"">>

AllMissing(no) == [i \in Rows(no) |-> Float(MISSING)]

FloatVec(v) == [i \in DOMAIN v |-> Float(v[i])]

(* ------------------------------- Init ---------------------------------- *)
(* The state once the module is imported: np.random.seed(0) has run. *)
InitProcess ==
    /\ pc = "idle"
    /\ train_rate = None
    /\ df = None /\ df_new = None /\ x = None /\ potential_y = None
    /\ t = None /\ y = None /\ idx = None /\ train_idx = None /\ test_idx = None
    /\ out = None
    /\ rng = seeded(NP_SEED)
    /\ seedings = 1
    /\ mt = << >>
    /\ run = 1
    /\ calls = << >>

(* Files for the pipeline as a whole: every size, label rotation, header
   order and quoting, with or without a column that is missing throughout. *)
Init ==
    /\ \E no \in 0 .. MaxNo, order \in HeaderOrders, q \in QuoteStyles,
          shift \in 0 .. 3, miss \in BOOLEAN :
          file = MkFile(no, order, q, shift,
                        IF miss THEN other_list[1] ELSE NoFocus, AllMissing(no))
    /\ InitProcess

(* Files for the imputer and the feature builder: one column of one of the
   three imputed or encoded groups takes every content over its values. *)
InitImpute ==
    /\ \E no \in 0 .. MaxNo, q \in {"'"} :
          \/ \E f \in MedriskSet, v \in [Rows(no) -> MedVals] :
                file = MkFile(no, FeaturesFirst, q, 0, f, v)
          \/ \E f \in OtherSet, v \in [Rows(no) -> ConVals] :
                file = MkFile(no, FeaturesFirst, q, 0, f, FloatVec(v))
          \/ \E f \in CatSet, v \in [Rows(no) -> CatVals] :
                file = MkFile(no, FeaturesFirst, q, 0, f, v)
    /\ InitProcess

(* Files for repeated calls and repeated runs: two records. *)
InitRuns ==
    /\ \E shift \in 0 .. 3 : file = MkFile(2, FeaturesFirst, "", shift, NoFocus, << >>)
    /\ InitProcess

(* ------------------------------ actions -------------------------------- *)
NewCall(rate) ==
    [run |-> run, train_rate |-> rate, start |-> rng, end |-> rng,
     draws |-> << >>, returned |-> FALSE, out |-> None]

Drew(kind, n) == [calls EXCEPT ![Len(calls)].draws = Append(@, <<kind, n>>)]

(* Variant: preprocess seeds the generator itself when it is entered. *)
EnterSeeding(rate) ==
    /\ pc \in {"idle", "raised"}
    /\ pc' = "load"
    /\ train_rate' = rate
    /\ rng' = seeded(NP_SEED)
    /\ seedings' = seedings + 1
    /\ calls' = Append(calls, [NewCall(rate) EXCEPT !.start = rng', !.end = rng'])
    /\ df' = None /\ df_new' = None /\ x' = None /\ potential_y' = None
    /\ t' = None /\ y' = None /\ idx' = None /\ train_idx' = None /\ test_idx' = None
    /\ out' = None
    /\ UNCHANGED <<file, mt, run>>

(* A caller enters preprocess(fn_csv, train_rate). *)
Enter(rate) ==
    /\ pc \in {"idle", "raised"}
    /\ pc' = "load"
    /\ train_rate' = rate
    /\ calls' = Append(calls, NewCall(rate))
    /\ df' = None /\ df_new' = None /\ x' = None /\ potential_y' = None
    /\ t' = None /\ y' = None /\ idx' = None /\ train_idx' = None /\ test_idx' = None
    /\ out' = None
    /\ UNCHANGED <<file, rng, seedings, mt, run>>

(* The only call of a run that makes one call. *)
Call ==
    /\ calls = << >>
    /\ \E rate \in TrainRates : Enter(rate)

(* A call that leaves train_rate at its default, 0.8. *)
CallDefault ==
    /\ calls = << >>
    /\ Enter(<<4, 5>>)

(* Any call of a process that calls preprocess repeatedly. *)
CallAgain ==
    /\ Len(calls) < MaxCalls
    /\ \E rate \in TrainRates : Enter(rate)

Load ==
    /\ pc = "load"
    /\ df' = read_csv(file)
    /\ pc' = "impute_medrisk"
    /\ UNCHANGED <<file, train_rate, df_new, x, potential_y, t, y, idx, train_idx,
                   test_idx, out, rng, seedings, mt, run, calls>>

ImputeMedrisk ==
    /\ pc = "impute_medrisk"
    /\ df' = impute_medrisk(df, 1)
    /\ pc' = "impute_other"
    /\ UNCHANGED <<file, train_rate, df_new, x, potential_y, t, y, idx, train_idx,
                   test_idx, out, rng, seedings, mt, run, calls>>

ImputeOther ==
    /\ pc = "impute_other"
    /\ df' = impute_other(df, 1)
    /\ pc' = "features"
    /\ UNCHANGED <<file, train_rate, df_new, x, potential_y, t, y, idx, train_idx,
                   test_idx, out, rng, seedings, mt, run, calls>>

BuildFeatures ==
    /\ pc = "features"
    /\ df_new' = build_df_new(df)
    /\ x' = feature_matrix(df, df_new')
    /\ pc' = "outcomes"
    /\ UNCHANGED <<file, train_rate, df, potential_y, t, y, idx, train_idx,
                   test_idx, out, rng, seedings, mt, run, calls>>

PotentialOutcomes ==
    /\ pc = "outcomes"
    /\ potential_y' = binarize(df)
    /\ pc' = "treatment"
    /\ UNCHANGED <<file, train_rate, df, df_new, x, t, y, idx, train_idx,
                   test_idx, out, rng, seedings, mt, run, calls>>

(* coef = uniform(size=[dim, 1]); noise = normal(size=[no, 1]);
   t = binomial(1, prob_t, [no, 1]).  The coefficients and the noise are
   reals that only shape prob_t; the model keeps the treatments they lead
   to, any 0/1 vector, as what the generator returns at this state. *)
AssignTreatment ==
    /\ pc = "treatment"
    /\ LET g == advance(advance(rng, x.dim), x.no)
           logged == [Drew("uniform", x.dim) EXCEPT
                         ![Len(calls)].draws = Append(@, <<"normal", x.no>>)]
       IN IF has_nan(df)
          THEN /\ pc' = "raised"
               /\ rng' = g
               /\ calls' = [logged EXCEPT ![Len(calls)].end = g]
               /\ UNCHANGED <<t, mt>>
          ELSE \E v \in Bernoulli(x.no) :
                  /\ Returns(g, "binomial", v)
                  /\ mt' = Reveal(g, "binomial", v)
                  /\ t' = v
                  /\ rng' = advance(g, x.no)
                  /\ calls' = [logged EXCEPT
                                  ![Len(calls)].draws = Append(@, <<"binomial", x.no>>)]
                  /\ pc' = "observed"
    /\ UNCHANGED <<file, train_rate, df, df_new, x, potential_y, y, idx, train_idx,
                   test_idx, out, seedings, run>>

ObservedOutcomes ==
    /\ pc = "observed"
    /\ y' = observe(t, potential_y)
    /\ pc' = "split"
    /\ UNCHANGED <<file, train_rate, df, df_new, x, potential_y, t, idx, train_idx,
                   test_idx, out, rng, seedings, mt, run, calls>>

Split ==
    /\ pc = "split"
    /\ \E p \in permutations(x.no) :
          /\ Returns(rng, "permutation", p)
          /\ mt' = Reveal(rng, "permutation", p)
          /\ idx' = p
    /\ train_idx' = head_slice(idx', train_size(train_rate, x.no))
    /\ test_idx' = tail_slice(idx', train_size(train_rate, x.no))
    /\ out' = split(x, t, y, potential_y, train_idx', test_idx')
    /\ rng' = advance(rng, x.no)
    /\ calls' = Drew("permutation", x.no)
    /\ pc' = "return"
    /\ UNCHANGED <<file, train_rate, df, df_new, x, potential_y, t, y, seedings, run>>

Return ==
    /\ pc = "return"
    /\ calls' = [calls EXCEPT ![Len(calls)].returned = TRUE,
                              ![Len(calls)].end = rng,
                              ![Len(calls)].out = out]
    /\ pc' = "idle"
    /\ UNCHANGED <<file, train_rate, df, df_new, x, potential_y, t, y, idx, train_idx,
                   test_idx, out, rng, seedings, mt, run>>

(* Variant: the module seeds from the system's entropy, np.random.seed(). *)
ImportModuleUnseeded ==
    /\ pc = "idle"
    /\ calls # << >>
    /\ calls[Len(calls)].run = run
    /\ Len(calls) < MaxCalls
    /\ run' = run + 1
    /\ rng' = seeded(run')
    /\ seedings' = 1
    /\ UNCHANGED <<file, pc, train_rate, df, df_new, x, potential_y, t, y, idx,
                   train_idx, test_idx, out, mt, calls>>

(* The process ends and a new one imports the module: lines 34-35 run. *)
ImportModule ==
    /\ pc = "idle"
    /\ calls # << >>
    /\ calls[Len(calls)].run = run
    /\ Len(calls) < MaxCalls
    /\ run' = run + 1
    /\ rng' = seeded(NP_SEED)
    /\ seedings' = 1
    /\ UNCHANGED <<file, pc, train_rate, df, df_new, x, potential_y, t, y, idx,
                   train_idx, test_idx, out, mt, calls>>

Pipeline ==
    \/ Load \/ ImputeMedrisk \/ ImputeOther \/ BuildFeatures
    \/ PotentialOutcomes \/ AssignTreatment \/ ObservedOutcomes \/ Split \/ Return

Next == Call \/ Pipeline

NextImpute == CallDefault \/ Load \/ ImputeMedrisk \/ ImputeOther \/ BuildFeatures

NextRuns == CallAgain \/ ImportModule \/ Pipeline

Spec == Init /\ [][Next]_vars

SpecImpute == InitImpute /\ [][NextImpute]_vars

SpecRuns == InitRuns /\ [][NextRuns]_vars

(* ============================ properties =============================== *)
(* The column of the file that the loader names f. *)
RawColumn(f) ==
    file.data[CHOOSE k \in DOMAIN file.header : strip_quotes(file.header[k]) = f]

AfterMedrisk ==
    pc \in {"impute_other", "features", "outcomes", "treatment", "observed", "split", "return"}

AfterImputer ==
    pc \in {"features", "outcomes", "treatment", "observed", "split", "return"}

AfterFeatures == pc \in {"outcomes", "treatment", "observed", "split", "return"}

AfterObserved == pc \in {"split", "return"}

AfterSplit == pc = "return"

(* C1: after the outcome synthesizer, the observed outcome of every record
   is the potential outcome selected by its treatment: y[i] is
   potential_y[i, 1] when t[i] = 1 and potential_y[i, 0] when t[i] = 0. *)
C1_ObservedIsSelected ==
    AfterObserved =>
        \A i \in Rows(x.no) :
            /\ t[i] \in {0, 1}
            /\ t[i] = 1 => y[i] = potential_y[i][2]
            /\ t[i] = 0 => y[i] = potential_y[i][1]

(* Both treatments assigned, to records whose two potential outcomes differ. *)
C1_Witness ==
    /\ AfterObserved
    /\ \E i, j \in Rows(x.no) :
          /\ t[i] = 1 /\ t[j] = 0
          /\ potential_y[i][1] # potential_y[i][2]
          /\ potential_y[j][1] # potential_y[j][2]

(* C2: the train and the test index sets are disjoint, together they are
   exactly the record indices 0..no-1, and no index appears twice. *)
C2_Partition ==
    AfterSplit =>
        /\ Range(train_idx) \cap Range(test_idx) = {}
        /\ Range(train_idx) \cup Range(test_idx) = Rows(x.no)
        /\ Len(train_idx) + Len(test_idx) = x.no
        /\ Cardinality(Range(train_idx)) = Len(train_idx)
        /\ Cardinality(Range(test_idx)) = Len(test_idx)

(* A split with both parts non-empty, drawn from a permutation that moves
   some record. *)
C2_Witness ==
    /\ AfterSplit
    /\ train_idx # << >> /\ test_idx # << >>
    /\ \E k \in DOMAIN idx : idx[k] # k - 1

(* C3: the training output has floor(train_rate * no) records, the two
   outputs together have no records, the training indices are the first
   floor(train_rate * no) entries of the permutation and the test indices
   are the rest, in order. *)
C3_Sizes ==
    AfterSplit =>
        LET k == Len(out.train_x)
        IN /\ k * train_rate[2] <= train_rate[1] * x.no
           /\ train_rate[1] * x.no < (k + 1) * train_rate[2]
           /\ k + Len(out.test_x) = x.no
           /\ Len(train_idx) = k
           /\ \A j \in 1 .. k : train_idx[j] = idx[j]
           /\ \A j \in 1 .. x.no - k : test_idx[j] = idx[k + j]

(* A split where train_rate * no is not a whole number. *)
C3_Witness ==
    /\ AfterSplit
    /\ (train_rate[1] * x.no) % train_rate[2] # 0
    /\ Len(out.train_x) > 0
    /\ Len(out.test_x) > 0

(* C4: the feature matrix consists of the continuous columns, the binary
   columns and one indicator block per categorical column, in this order,
   hence dim = 8 + 19 + the number of distinct category values, and holds
   neither a raw categorical column nor an outcome label. *)
C4_FeatureColumns ==
    AfterFeatures =>
        /\ x.dim = 8 + 19 + Cardinality(Range(df.data[cat_list[1]]))
                          + Cardinality(Range(df.data[cat_list[2]]))
                          + Cardinality(Range(df.data[cat_list[3]]))
        /\ x = values(df_new)

(* C5: after the imputer no cell of a medical-risk column holds 8 or 9. *)
C5_NoMedriskSentinel ==
    AfterImputer =>
        \A f \in MedriskSet : \A i \in Rows(df.no) :
            df.data[f][i] \notin MEDRISK_SENTINELS

(* The integer cells of a column of the file that are not the sentinel 99. *)
Present(col) == {i \in DOMAIN col : col[i].n # MISSING}

RECURSIVE IntSum(_, _)
IntSum(col, sel) ==
    IF sel = {} THEN 0
    ELSE LET i == CHOOSE j \in sel : TRUE IN col[i].n + IntSum(col, sel \ {i})

(* q is the quotient total / count. *)
IsQuotient(q, total, count) ==
    IF count = 0 THEN q = NaN ELSE q.d > 0 /\ q.n * count = total * q.d

(* C6 as stated: after the imputer no cell of the six continuous columns
   holds 99, every cell that was 99 holds the mean of the column's non-99
   values and every other cell is unchanged. *)
C6_NoMissingLeft ==
    AfterImputer =>
        \A f \in OtherSet :
            LET raw == RawColumn(f)
                new == df.data[f]
                present == Present(raw)
                total == IntSum(raw, present)
            IN \A i \in Rows(df.no) :
                  /\ new[i] # Float(MISSING)
                  /\ raw[i] # Float(MISSING) => new[i] = raw[i]
                  /\ raw[i] = Float(MISSING) =>
                        IsQuotient(new[i], total, Cardinality(present))

(* C6 amended: every cell that was 99 holds the mean of the column's
   non-99 values (NaN when there is none), every other cell is unchanged,
   and a cell holds 99 after the imputer only where it was 99 and that
   mean is exactly 99. *)
C6_MeanImputed ==
    AfterImputer =>
        \A f \in OtherSet :
            LET raw == RawColumn(f)
                new == df.data[f]
                present == Present(raw)
                total == IntSum(raw, present)
            IN \A i \in Rows(df.no) :
                  /\ raw[i] # Float(MISSING) => new[i] = raw[i]
                  /\ raw[i] = Float(MISSING) =>
                        IsQuotient(new[i], total, Cardinality(present))
                  /\ new[i] = Float(MISSING) =>
                        /\ raw[i] = Float(MISSING)
                        /\ present # {}
                        /\ total = MISSING * Cardinality(present)

(* A column whose non-99 cells average 99, so that its 99 cells hold 99
   after the imputer. *)
C6_Witness ==
    /\ AfterImputer
    /\ \E f \in OtherSet : \E i \in Rows(df.no) :
          /\ RawColumn(f)[i] = Float(MISSING)
          /\ Present(RawColumn(f)) # {}
          /\ df.data[f][i] = Float(MISSING)


(* C7: two runs that start from the same seed, read the same file and pass
   the same train_rate return the same six outputs. *)
FirstOfRun(a) == a = 1 \/ calls[a - 1].run # calls[a].run

C7_Deterministic ==
    \A a, b \in DOMAIN calls :
        ( /\ calls[a].run # calls[b].run
          /\ FirstOfRun(a) /\ FirstOfRun(b)
          /\ calls[a].returned /\ calls[b].returned
          /\ calls[a].train_rate = calls[b].train_rate )
        => calls[a].out = calls[b].out

(* Two runs have returned for the same train_rate, with both treatments
   assigned in the training output. *)
C7_Witness ==
    \E a, b \in DOMAIN calls :
        /\ calls[a].run # calls[b].run
        /\ FirstOfRun(a) /\ FirstOfRun(b)
        /\ calls[a].returned /\ calls[b].returned
        /\ calls[a].train_rate = calls[b].train_rate
        /\ calls[a].out.train_t # << >>
        /\ calls[a].out.train_potential_y # calls[a].out.test_potential_y

(* The most frequent value of a column; C8 leaves ties open. *)
MostFrequent(col, m) ==
    /\ m \in Range(col)
    /\ \A w \in Range(col) : Count(col, w) <= Count(col, m)

(* C8: in each medical-risk column every cell that held 8 or 9 holds a most
   frequent value of the column as it was in the file, sentinels counted,
   the same one in every replaced cell of the column; every other cell of
   the column is unchanged; right after this step every other column is
   as it was in the file. *)
C8_ModeOfFileColumn ==
    AfterMedrisk =>
        /\ \A f \in MedriskSet :
              LET raw == RawColumn(f)
                  new == df.data[f]
              IN \A i \in Rows(df.no) :
                    /\ raw[i] \notin MEDRISK_SENTINELS => new[i] = raw[i]
                    /\ raw[i] \in MEDRISK_SENTINELS =>
                          /\ MostFrequent(raw, new[i])
                          /\ \A j \in Rows(df.no) :
                                raw[j] \in MEDRISK_SENTINELS => new[j] = new[i]
        /\ pc = "impute_other" =>
              \A c \in Range(df.columns) \ MedriskSet : df.data[c] = RawColumn(c)

(* A sentinel is the mode and replaces the other sentinel of its column. *)
C8_Witness ==
    /\ pc = "impute_other"
    /\ \E f \in MedriskSet : \E i, j \in Rows(df.no) :
          /\ RawColumn(f)[i] = 9 /\ df.data[f][i] = 8
          /\ RawColumn(f)[j] = 8 /\ df.data[f][j] = 8

(* C9: position k of the four training outputs is record train_idx[k],
   so train_y[k] is train_potential_y[k] at train_t[k]; position k of the
   two test outputs is record test_idx[k]. *)
C9_Aligned ==
    AfterSplit =>
        /\ DOMAIN out.train_x = DOMAIN train_idx /\ DOMAIN out.train_t = DOMAIN train_idx
        /\ DOMAIN out.train_y = DOMAIN train_idx
        /\ DOMAIN out.train_potential_y = DOMAIN train_idx
        /\ DOMAIN out.test_x = DOMAIN test_idx
        /\ DOMAIN out.test_potential_y = DOMAIN test_idx
        /\ \A k \in DOMAIN train_idx :
              /\ out.train_x[k] = x.rows[train_idx[k]]
              /\ out.train_t[k] = t[train_idx[k]]
              /\ out.train_y[k] = y[train_idx[k]]
              /\ out.train_potential_y[k] = potential_y[train_idx[k]]
              /\ out.train_y[k] = out.train_potential_y[k][out.train_t[k] + 1]
        /\ \A k \in DOMAIN test_idx :
              /\ out.test_x[k] = x.rows[test_idx[k]]
              /\ out.test_potential_y[k] = potential_y[test_idx[k]]

(* Two training records out of file order with different treatments. *)
C9_Witness ==
    /\ AfterSplit
    /\ Len(train_idx) >= 2
    /\ train_idx[1] > train_idx[2]
    /\ out.train_t[1] # out.train_t[2]
    /\ test_idx # << >>

(* C10: preprocess never seeds the generator, which is seeded once when the
   module is imported; a call that returns has drawn, in this order, dim
   coefficients, no noise values, no treatments and a permutation of no;
   each call of a process starts from the state the previous call left,
   the first from the seeded state; and calls that start from the same
   state with the same train_rate return the same outputs. *)
C10_GeneratorThreadsThroughCalls ==
    /\ seedings = 1
    /\ \A a \in DOMAIN calls :
          /\ FirstOfRun(a) => calls[a].start = seeded(NP_SEED)
          /\ ~FirstOfRun(a) => calls[a].start = calls[a - 1].end
          /\ calls[a].returned =>
                /\ calls[a].draws = << <<"uniform", Len(file.header)>>, <<"normal", file.no>>,
                                       <<"binomial", file.no>>, <<"permutation", file.no>> >>
                /\ calls[a].end = advance(calls[a].start, Len(file.header) + 3 * file.no)
    /\ \A a, b \in DOMAIN calls :
          ( /\ calls[a].returned /\ calls[b].returned
            /\ calls[a].start = calls[b].start
            /\ calls[a].train_rate = calls[b].train_rate )
          => calls[a].out = calls[b].out

(* The second call of a process, on the same file with the same
   train_rate, returns other outputs than the first. *)
C10_Witness ==
    \E a \in DOMAIN calls :
        /\ a > 1
        /\ calls[a].run = calls[a - 1].run
        /\ calls[a].returned /\ calls[a - 1].returned
        /\ calls[a].train_rate = calls[a - 1].train_rate
        /\ calls[a].out # calls[a - 1].out

====
